---- MODULE Spec2Model ----
(***************************************************************************)
(* CreditPath-AI browser client: the batch-prediction page                 *)
(* (frontend/js/batch.js), the single-prediction page, the CSV codec and   *)
(* the loan application page with its simulated model (script.js).         *)
(*                                                                         *)
(* Text is a sequence of tokens.  The separators the code looks at (line   *)
(* break, comma, blank, quote characters, decimal digits, the decimal      *)
(* point) are tokens of their own; every other token is an indivisible     *)
(* word such as "person_age" or "RENT".  A JavaScript string is therefore  *)
(* a token sequence, and trim, split, replace, join and parseFloat are      *)
(* computed on it the way the engine computes them on characters.          *)
(***************************************************************************)
EXTENDS FiniteSets, Integers, Sequences, TLC

NL == "\n"
CR == "\r"
COMMA == ","
SP == " "
DQ == "\""
SQ == "'"
DOT == "."
MINUS == "-"
Digits == <<"0", "1", "2", "3", "4", "5", "6", "7", "8", "9">>

(***************************************************************************)
(* JavaScript values.  Numbers are kept in thousandths, which is exact for *)
(* every numeral with at most three fractional digits.                     *)
(***************************************************************************)
Undefined == [t |-> "undefined"]
Null == [t |-> "null"]
NaN == [t |-> "NaN"]
Str(s) == [t |-> "string", s |-> s]
Num(m) == [t |-> "number", milli |-> m]
Arr(items) == [t |-> "array", items |-> items]
Obj(fields) == [t |-> "object", fields |-> fields]

IsSpace(tok) == tok \in {SP, NL, CR}

RECURSIVE TrimStart(_)
TrimStart(s) ==
    IF s = <<>> THEN s
    ELSE IF IsSpace(Head(s)) THEN TrimStart(Tail(s)) ELSE s

RECURSIVE TrimEnd(_)
TrimEnd(s) ==
    IF s = <<>> THEN s
    ELSE IF IsSpace(s[Len(s)]) THEN TrimEnd(SubSeq(s, 1, Len(s) - 1)) ELSE s

\* String.prototype.trim
Trim(s) == TrimEnd(TrimStart(s))

\* String.prototype.split(sep): always at least one piece
RECURSIVE Split(_, _)
Split(s, sep) ==
    IF \A i \in 1..Len(s) : s[i] # sep THEN <<s>>
    ELSE LET i == CHOOSE k \in 1..Len(s) :
                      s[k] = sep /\ \A j \in 1..(k - 1) : s[j] # sep
         IN  <<SubSeq(s, 1, i - 1)>> \o Split(SubSeq(s, i + 1, Len(s)), sep)

\* Array.prototype.join(sep) on an array of strings
RECURSIVE Join(_, _)
Join(parts, sep) ==
    IF parts = <<>> THEN <<>>
    ELSE IF Len(parts) = 1 THEN parts[1]
    ELSE parts[1] \o sep \o Join(Tail(parts), sep)

\* v.trim().replace(/['"]/g, '')
CleanCell(c) == SelectSeq(Trim(c), LAMBDA tok : tok \notin {SQ, DQ})

IsDigit(tok) == \E d \in 1..Len(Digits) : Digits[d] = tok
DigitVal(tok) == (CHOOSE d \in 1..Len(Digits) : Digits[d] = tok) - 1

RECURSIVE LeadingDigits(_)
LeadingDigits(s) ==
    IF s = <<>> \/ ~IsDigit(Head(s)) THEN <<>>
    ELSE <<Head(s)>> \o LeadingDigits(Tail(s))

RECURSIVE DecValue(_)
DecValue(ds) ==
    IF ds = <<>> THEN 0
    ELSE DecValue(SubSeq(ds, 1, Len(ds) - 1)) * 10 + DigitVal(ds[Len(ds)])

\* the fractional digits as thousandths
FracValue(ds) ==
    (IF Len(ds) >= 1 THEN DigitVal(ds[1]) * 100 ELSE 0)
    + (IF Len(ds) >= 2 THEN DigitVal(ds[2]) * 10 ELSE 0)
    + (IF Len(ds) >= 3 THEN DigitVal(ds[3]) ELSE 0)

\* parseFloat of a string or of undefined: leading blanks, an optional sign, digits, an optional
\* fraction; whatever follows is ignored; no digits at all gives NaN.
parseFloat(v) ==
    IF v.t # "string" THEN NaN
    ELSE LET s0 == TrimStart(v.s)
             neg == s0 # <<>> /\ Head(s0) = MINUS
             s == IF neg THEN Tail(s0) ELSE s0
             ip == LeadingDigits(s)
             rest == SubSeq(s, Len(ip) + 1, Len(s))
             fp == IF rest # <<>> /\ Head(rest) = DOT
                   THEN LeadingDigits(Tail(rest)) ELSE <<>>
             mag == DecValue(ip) * 1000 + FracValue(fp)
         IN  IF ip = <<>> /\ fp = <<>> THEN NaN
             ELSE Num(IF neg THEN 0 - mag ELSE mag)

\* x || 0 for a number x
OrZero(x) == IF x = NaN \/ x = Num(0) THEN Num(0) ELSE x

(***************************************************************************)
(* batch.js: parseCSV                                                      *)
(***************************************************************************)
requiredFields ==
    << "person_age", "person_income", "person_emp_exp",
       "person_home_ownership", "loan_amnt", "loan_int_rate", "loan_intent",
       "credit_score", "cb_person_cred_hist_length",
       "previous_loan_defaults_on_file" >>

numericColumns ==
    { "person_age", "person_income", "person_emp_exp", "loan_amnt",
      "loan_int_rate", "credit_score", "cb_person_cred_hist_length" }

Ok(v) == [ok |-> TRUE, value |-> v]
Throw(msg) == [ok |-> FALSE, message |-> msg]

splitCells(line) ==
    LET raw == Split(line, COMMA)
    IN  [i \in 1..Len(raw) |-> CleanCell(raw[i])]

\* as missingFields, but the scan stops at the first missing field
missingFieldsFirstOnly(headers) ==
    LET all == SelectSeq(requiredFields,
                   LAMBDA f : ~ \E i \in 1..Len(headers) : headers[i] = <<f>>)
    IN  IF all = <<>> THEN all ELSE <<all[1]>>

\* the required fields no header equals, in requiredFields order
missingFields(headers) ==
    SelectSeq(requiredFields,
              LAMBDA f : ~ \E i \in 1..Len(headers) : headers[i] = <<f>>)

\* headers.forEach((header, index) => ...): a later column of the same
\* name overwrites an earlier one
parseRow(headers, line) ==
    LET values == splitCells(line)
        at(index) == IF index <= Len(values) THEN Str(values[index]) ELSE Undefined
        conv(header, value) ==
            IF \E f \in numericColumns : header = <<f>>
            THEN OrZero(parseFloat(value))
            ELSE value
    IN  [h \in {headers[i] : i \in 1..Len(headers)} |->
            LET last == CHOOSE i \in 1..Len(headers) :
                            /\ headers[i] = h
                            /\ \A j \in (i + 1)..Len(headers) : headers[j] # h
            IN  conv(h, at(last))]

\* as parseRows, but only the empty line is skipped, not the blank one
RECURSIVE parseRowsEmptyOnly(_, _)
parseRowsEmptyOnly(headers, lines) ==
    IF lines = <<>> THEN <<>>
    ELSE IF Head(lines) = <<>> THEN parseRowsEmptyOnly(headers, Tail(lines))
    ELSE <<parseRow(headers, Head(lines))>>
         \o parseRowsEmptyOnly(headers, Tail(lines))

RECURSIVE parseRows(_, _)
parseRows(headers, lines) ==
    IF lines = <<>> THEN <<>>
    ELSE IF Trim(Head(lines)) = <<>> THEN parseRows(headers, Tail(lines))
    ELSE <<parseRow(headers, Head(lines))>> \o parseRows(headers, Tail(lines))

\* as parseCSV, but the header is not validated
parseCSVNoHeaderCheck(csvText) ==
    LET lines == Split(Trim(csvText), NL)
        headers == splitCells(lines[1])
    IN  IF Len(lines) < 2
        THEN Throw(<<"CSV file must contain headers and at least one data row">>)
        ELSE Ok(parseRows(headers, Tail(lines)))

parseCSV(csvText) ==
    LET lines == Split(Trim(csvText), NL)
        headers == splitCells(lines[1])
        missing == missingFields(headers)
    IN  IF Len(lines) < 2
        THEN Throw(<<"CSV file must contain headers and at least one data row">>)
        ELSE IF Len(missing) > 0
        THEN Throw(<<"Missing required columns: ">>
                   \o Join([i \in 1..Len(missing) |-> <<missing[i]>>],
                           <<COMMA, SP>>))
        ELSE Ok(parseRows(headers, Tail(lines)))

(***************************************************************************)
(* CSV documents: the inputs of the decoder.  A document is a header (a    *)
(* sequence of column names) and a sequence of data lines, each of a kind; *)
(* RenderDoc writes it out as text the way a spreadsheet export would.     *)
(***************************************************************************)
TemplateRow1 ==
    [ person_age |-> <<"3", "0">>,
      person_income |-> <<"5", "0", "0", "0", "0", "0">>,
      person_emp_exp |-> <<"5">>,
      person_home_ownership |-> <<"RENT">>,
      loan_amnt |-> <<"1", "5", "0", "0", "0", "0">>,
      loan_int_rate |-> <<"1", "0", ".", "5">>,
      loan_intent |-> <<"EDUCATION">>,
      credit_score |-> <<"6", "5", "0">>,
      cb_person_cred_hist_length |-> <<"8">>,
      previous_loan_defaults_on_file |-> <<"No">>,
      notes |-> <<"n1">> ]

TemplateRow2 ==
    [ person_age |-> <<"2", "5">>,
      person_income |-> <<"3", "0", "0", "0", "0", "0">>,
      person_emp_exp |-> <<"2">>,
      person_home_ownership |-> <<"OWN">>,
      loan_amnt |-> <<"8", "0", "0", "0", "0">>,
      loan_int_rate |-> <<"1", "2", ".", "0">>,
      loan_intent |-> <<"MEDICAL">>,
      credit_score |-> <<"5", "8", "0">>,
      cb_person_cred_hist_length |-> <<"4">>,
      previous_loan_defaults_on_file |-> <<"No">>,
      notes |-> <<"n2">> ]

\* the first template row with a word where the age should be
BadRow == [TemplateRow1 EXCEPT !.person_age = <<"abc">>]

\* number of cells of a row that was cut short
ShortLen == 4

LineKinds == {"row1", "row2", "quoted", "short", "bad", "blank", "spaces"}
DataKinds == {"row1", "row2", "quoted", "short", "bad"}

\* the cells of a data line of the given kind under the given header
RowCells(header, kind) ==
    LET src == IF kind = "row2" THEN TemplateRow2
               ELSE IF kind = "bad" THEN BadRow ELSE TemplateRow1
        n == IF kind = "short" /\ Len(header) > ShortLen
             THEN ShortLen ELSE Len(header)
    IN  [i \in 1..n |->
            IF kind = "quoted" THEN <<SP, DQ>> \o src[header[i]] \o <<DQ, SP>>
            ELSE src[header[i]]]

RenderLine(header, kind) ==
    IF kind = "blank" THEN <<>>
    ELSE IF kind = "spaces" THEN <<SP, SP>>
    ELSE Join(RowCells(header, kind), <<COMMA>>)

RenderHeader(header, style) ==
    Join([i \in 1..Len(header) |->
            IF style = "quoted" THEN <<DQ, header[i], DQ>>
            ELSE IF style = "padded" THEN <<SP, header[i], SP>>
            ELSE <<header[i]>>],
         <<COMMA>>)

RenderDoc(doc) ==
    Join(<<RenderHeader(doc.header, doc.style)>>
         \o [i \in 1..Len(doc.lines) |-> RenderLine(doc.header, doc.lines[i])],
         <<NL>>)
    \o (IF doc.eol THEN <<CR, NL>> ELSE <<>>)

(***************************************************************************)
(* Bounds of the decoder inputs                                            *)
(***************************************************************************)
\* most data lines of a document
MaxLines == 3

Required == {requiredFields[i] : i \in 1..Len(requiredFields)}

Reverse(s) == [i \in 1..Len(s) |-> s[Len(s) + 1 - i]]
Without(s, M) == SelectSeq(s, LAMBDA f : f \notin M)
WithExtra(s) == SubSeq(s, 1, 3) \o <<"notes">> \o SubSeq(s, 4, Len(s))

\* headers holding all ten required columns, in several orders
ValidHeaders ==
    { requiredFields, Reverse(requiredFields), WithExtra(requiredFields),
      SubSeq(requiredFields, 6, 10) \o SubSeq(requiredFields, 1, 5) }

LineSeqs(n) == UNION {[1..k -> LineKinds] : k \in 0..n}

MkDoc(h, st, ls, e) == [header |-> h, style |-> st, lines |-> ls, eol |-> e]

CodecDocs ==
    {MkDoc(h, "plain", ls, FALSE) : h \in ValidHeaders, ls \in LineSeqs(MaxLines)}
    \cup {MkDoc(requiredFields, st, ls, e) :
            st \in {"quoted", "padded"}, ls \in LineSeqs(2), e \in BOOLEAN}
    \cup {MkDoc(Without(h, M), "plain", <<k>>, FALSE) :
            h \in {requiredFields, WithExtra(Reverse(requiredFields))},
            M \in SUBSET Required \ {{}}, k \in {"row1", "blank"}}

NoDoc == MkDoc(<<>>, "plain", <<>>, FALSE)
NotRun == [ok |-> FALSE, message |-> <<>>]

(***************************************************************************)
(* Number and text conversions used by the renderers                       *)
(***************************************************************************)
RECURSIVE ToDigits(_)
ToDigits(n) ==
    IF n < 10 THEN <<Digits[n + 1]>>
    ELSE ToDigits(n \div 10) \o <<Digits[(n % 10) + 1]>>

\* the fraction of a number in thousandths, without trailing zeros
FracDigits(fr) ==
    IF fr % 100 = 0 THEN <<Digits[(fr \div 100) + 1]>>
    ELSE IF fr % 10 = 0
    THEN <<Digits[(fr \div 100) + 1], Digits[((fr \div 10) % 10) + 1]>>
    ELSE <<Digits[(fr \div 100) + 1], Digits[((fr \div 10) % 10) + 1],
           Digits[(fr % 10) + 1]>>

\* Number.prototype.toString of a number that is not negative
NumToString(m) ==
    ToDigits(m \div 1000)
    \o (IF m % 1000 = 0 THEN <<>> ELSE <<DOT>> \o FracDigits(m % 1000))

\* `${v}` in a template literal
ToText(v) ==
    IF v.t = "string" THEN v.s
    ELSE IF v.t = "number" THEN NumToString(v.milli)
    ELSE IF v.t = "NaN" THEN <<"NaN">>
    ELSE IF v.t = "null" THEN <<"null">>
    ELSE <<"undefined">>

\* Math.round(v * 100) for a number v that is not negative, as an integer
RoundPercent(v) == ((v.milli * 100) + 500) \div 1000

\* (v * 100).toFixed(2)
PercentFixed2(v) ==
    LET hundredths == v.milli * 10
    IN  ToDigits(hundredths \div 100)
        \o <<DOT, Digits[((hundredths \div 10) % 10) + 1],
             Digits[(hundredths % 10) + 1]>>

RECURSIVE GroupTwos(_)
GroupTwos(ds) ==
    IF Len(ds) <= 2 THEN ds
    ELSE GroupTwos(SubSeq(ds, 1, Len(ds) - 2))
         \o <<COMMA>> \o SubSeq(ds, Len(ds) - 1, Len(ds))

\* new Intl.NumberFormat('en-IN').format(amount) of a whole number
formatCurrency(v) ==
    LET ds == ToDigits(v.milli \div 1000)
    IN  IF Len(ds) <= 3 THEN ds
        ELSE GroupTwos(SubSeq(ds, 1, Len(ds) - 3))
             \o <<COMMA>> \o SubSeq(ds, Len(ds) - 2, Len(ds))

\* a value used as a condition
Truthy(v) ==
    IF v.t = "string" THEN v.s # <<>>
    ELSE IF v.t = "number" THEN v.milli # 0
    ELSE v.t \in {"array", "object"}

\* o[k] of an object
Get(o, k) == IF k \in DOMAIN o.fields THEN o.fields[k] ELSE Undefined

\* JSON.stringify of one record: members that are undefined are left
\* out, NaN is written as null
StringifyRecord(rec) ==
    LET keys == {k \in DOMAIN rec : rec[k] # Undefined}
    IN  [k \in keys |-> IF rec[k] = NaN THEN Null ELSE rec[k]]

(***************************************************************************)
(* The files a user can pick and the answers the server can give           *)
(***************************************************************************)
NoFile == [name |-> <<>>, doc |-> NoDoc]

CsvName == <<"loans", ".csv">>
TxtName == <<"loans", ".txt">>

GoodDoc == MkDoc(requiredFields, "plain", <<"row1", "row2">>, FALSE)
ShortRowDoc == MkDoc(requiredFields, "plain", <<"row2", "short">>, FALSE)
HeaderOnlyDoc == MkDoc(requiredFields, "plain", <<"blank", "spaces">>, TRUE)
MissingColumnsDoc ==
    MkDoc(Without(requiredFields, {"loan_amnt", "credit_score"}), "plain",
          <<"row1">>, FALSE)

Files ==
    {[name |-> CsvName, doc |-> d] :
        d \in {GoodDoc, ShortRowDoc, HeaderOnlyDoc, MissingColumnsDoc}}
    \cup {[name |-> TxtName, doc |-> GoodDoc]}

\* as EndsWithCsv, but any file that has a name passes
EndsWithAnything(name) == name # <<>>

\* file.name.endsWith('.csv')
EndsWithCsv(name) == name # <<>> /\ name[Len(name)] = ".csv"

PredHigh ==
    [ default_probability |-> Num(820), risk_level |-> Str(<<"High Risk">>),
      borrower_summary |->
          [ age |-> Num(30000), annual_income |-> Num(500000000),
            loan_amount |-> Num(150000000), credit_score |-> Num(650000) ],
      recommendation |->
          [ action |-> Str(<<"Immediate follow-up">>),
            priority |-> Str(<<"High">>) ] ]

PredMedium ==
    [ default_probability |-> Num(450), risk_level |-> Str(<<"Medium Risk">>),
      borrower_summary |->
          [ age |-> Num(25000), annual_income |-> Num(300000000),
            loan_amount |-> Num(80000000), credit_score |-> Num(580000) ],
      recommendation |->
          [ action |-> Str(<<"Send reminder">>),
            priority |-> Str(<<"Medium">>) ] ]

PredLow ==
    [ default_probability |-> Num(100), risk_level |-> Str(<<"Low Risk">>),
      borrower_summary |->
          [ age |-> Num(35000), annual_income |-> Num(750000000),
            loan_amount |-> Num(200000000), credit_score |-> Num(720000) ],
      recommendation |->
          [ action |-> Str(<<"Standard monitoring">>),
            priority |-> Str(<<"Low">>) ] ]

\* a prediction the server labels with a tier of its own making, and with
\* a probability that the client's thresholds would call high
PredOdd ==
    [ default_probability |-> Num(950), risk_level |-> Str(<<"Critical">>),
      borrower_summary |->
          [ age |-> Num(52000), annual_income |-> Num(120000000),
            loan_amount |-> Num(900000000), credit_score |-> Num(410000) ],
      recommendation |->
          [ action |-> Str(<<"Escalate">>),
            priority |-> Str(<<"High">>) ] ]

\* the predictions arrays a batch answer can carry
PredLists ==
    { <<>>, <<PredHigh>>, <<PredLow, PredMedium>>, <<PredOdd, PredHigh>>,
      <<PredHigh, PredMedium, PredLow>> }

NotJson == [json |-> FALSE, value |-> Undefined]
Json(v) == [json |-> TRUE, value |-> v]

MessageBody == Json(Obj([message |-> Str(<<"model unavailable">>)]))
DetailBody == Json(Obj([detail |-> Str(<<"Internal Server Error">>)]))
PredictionsBody(list) == Json(Obj([predictions |-> Arr(list)]))

\* default probabilities, in thousandths, of the single-prediction answers
ProbSamples == {0, 100, 299, 300, 450, 599, 600, 820, 1000}

ResultBody(p) ==
    Json(Obj([ default_probability |-> Num(p),
               risk_level |-> Str(<<"Medium Risk">>),
               borrower_summary |->
                   Obj([ annual_income |-> Num(500000000),
                         loan_amount |-> Num(150000000),
                         credit_score |-> Num(650000) ]),
               recommendation |->
                   Obj([ action |-> Str(<<"Send reminder">>),
                         risk_level |-> Str(<<"Medium Risk">>),
                         priority |-> Str(<<"Medium">>) ]) ]))

\* an answer whose recommendation carries no risk_level
ResultNoLevel ==
    Json(Obj([ default_probability |-> Num(450),
               risk_level |-> Str(<<"Medium Risk">>),
               borrower_summary |->
                   Obj([ annual_income |-> Num(500000000),
                         loan_amount |-> Num(150000000),
                         credit_score |-> Num(650000) ]),
               recommendation |->
                   Obj([ action |-> Str(<<"Send reminder">>),
                         priority |-> Str(<<"Medium">>) ]) ]))

Statuses == {200, 500}

Bodies(pg) ==
    {NotJson, Json(Null), MessageBody, DetailBody}
    \cup (IF pg = "batch" THEN {PredictionsBody(l) : l \in PredLists}
          ELSE {ResultBody(p) : p \in ProbSamples} \cup {ResultNoLevel})

Responses(pg) == {[status |-> st, body |-> b] : st \in Statuses, b \in Bodies(pg)}

NoResponse == [status |-> 0, body |-> NotJson]

\* response.ok
IsOk(resp) == resp.status >= 200 /\ resp.status <= 299

\* most activations of a submit handler that can be pending at once
MaxCalls == 2

Calls == 1..MaxCalls

Free == [pc |-> "free", file |-> NoFile, data |-> Undefined, resp |-> NoResponse]

VARIABLES
    page,            \* the page the browser has loaded
    selectedFile,    \* batch.js: let selectedFile
    resultsData,     \* batch.js: let resultsData
    calls,           \* the pending activations of the async submit handler
    submitDisabled,  \* processBtn.disabled / .btn-predict.disabled
    loadingShown,    \* #loading is displayed
    resultShown,     \* #resultsSection / #resultSection is displayed
    errorShown,      \* #errorMessage is displayed
    errorText,       \* #errorMessage.textContent
    fileInfoShown,   \* #fileInfo is displayed
    stats,           \* the four counters of the summary panel
    resultsBody,     \* the rows of the results table
    downloaded,      \* the text of the last file handed to the browser
    riskBadge,       \* the label inside #riskBadge
    riskCategory,    \* the risk category line of #recommendation
    csvDoc,          \* the document handed to the decoder
    decoded,         \* what parseCSV returned for it, NotRun before the call
    loanForm,        \* script.js: the values typed into #loanForm
    modalShown,      \* script.js: #successModal is not hidden
    modelResult,     \* script.js: #modelResult.textContent
    timers           \* script.js: the timeouts that are set and not yet run

codecVars == <<csvDoc, decoded>>
loanVars == <<loanForm, modalShown, modelResult, timers>>
domVars ==
    <<submitDisabled, loadingShown, resultShown, errorShown, errorText,
      fileInfoShown, stats, resultsBody, downloaded, riskBadge, riskCategory>>
flowVars == <<page, selectedFile, resultsData, calls, domVars>>
vars == <<flowVars, codecVars, loanVars>>

NoStats == [total |-> 0, high |-> 0, medium |-> 0, low |-> 0]

\* the state of a page right after it has loaded
PageLoaded ==
    /\ selectedFile = NoFile
    /\ resultsData = Arr(<<>>)
    /\ calls = [c \in Calls |-> Free]
    /\ submitDisabled = FALSE
    /\ loadingShown = FALSE
    /\ resultShown = FALSE
    /\ errorShown = FALSE
    /\ errorText = <<>>
    /\ fileInfoShown = FALSE
    /\ stats = NoStats
    /\ resultsBody = <<>>
    /\ downloaded = <<>>
    /\ riskBadge = <<>>
    /\ riskCategory = <<>>
    /\ loanForm = [k \in {"age", "annualIncome", "creditScore", "loanAmount",
                           "loanTenure", "employmentStatus", "loanPurpose"}
                     |-> Str(<<>>)]
    /\ modalShown = FALSE
    /\ modelResult = <<>>
    /\ timers = <<>>

InitCodec ==
    /\ page = "codec"
    /\ PageLoaded
    /\ csvDoc \in CodecDocs
    /\ decoded = NotRun

\* const borrowers = parseCSV(csvText)
Decode ==
    /\ decoded = NotRun
    /\ decoded' = parseCSV(RenderDoc(csvDoc))
    /\ UNCHANGED <<csvDoc, flowVars, loanVars>>

NextCodec == Decode
SpecCodec == InitCodec /\ [][NextCodec]_vars

(***************************************************************************)
(* batch.js: the batch-prediction page                                     *)
(***************************************************************************)
\* showError(message)
showError(message) ==
    /\ errorText' = message
    /\ errorShown' = TRUE

\* The page markup binds processBatch to the process button and makes
\* .btn-predict the submit button of #predictionForm; a browser delivers
\* no click to a disabled button and does not submit a form whose submit
\* button is disabled.
CanSubmit == ~submitDisabled

\* the slot a new activation of the handler takes
FirstFree(c) ==
    /\ calls[c].pc = "free"
    /\ \A d \in Calls : d < c => calls[d].pc # "free"

\* as Finally, but the submit control stays disabled
FinallyNoEnable(c) ==
    /\ loadingShown' = FALSE
    /\ UNCHANGED submitDisabled
    /\ calls' = [calls EXCEPT ![c] = Free]

\* the finally block of processBatch and of the submit handler
Finally(c) ==
    /\ loadingShown' = FALSE
    /\ submitDisabled' = FALSE
    /\ calls' = [calls EXCEPT ![c] = Free]

\* the catch and finally blocks of processBatch
Caught(c, message) ==
    /\ showError(<<"Failed to process batch: ">> \o message)
    /\ Finally(c)

\* handleFile(file), reached from the file input and from a drop
handleFile(file) ==
    /\ page = "batch"
    /\ IF ~EndsWithCsv(file.name)
       THEN /\ showError(<<"Please upload a CSV file">>)
            /\ UNCHANGED <<selectedFile, fileInfoShown>>
       ELSE /\ selectedFile' = file
            /\ fileInfoShown' = TRUE
            /\ UNCHANGED <<errorText, errorShown>>
    /\ UNCHANGED <<page, resultsData, calls, submitDisabled, loadingShown,
                   resultShown, stats, resultsBody, downloaded, riskBadge,
                   riskCategory, codecVars, loanVars>>

\* as processBatch, but the button is left enabled while the work runs
processBatchNoDisable(c) ==
    /\ page = "batch"
    /\ CanSubmit
    /\ FirstFree(c)
    /\ IF selectedFile = NoFile
       THEN /\ showError(<<"Please select a CSV file first">>)
            /\ UNCHANGED <<calls, resultShown, loadingShown, submitDisabled>>
       ELSE /\ resultShown' = FALSE
            /\ errorShown' = FALSE
            /\ loadingShown' = TRUE
            /\ calls' = [calls EXCEPT ![c] =
                            [Free EXCEPT !.pc = "reading", !.file = selectedFile]]
            /\ UNCHANGED <<errorText, submitDisabled>>
    /\ UNCHANGED <<page, selectedFile, resultsData, fileInfoShown, stats,
                   resultsBody, downloaded, riskBadge, riskCategory, codecVars, loanVars>>

\* processBatch() up to its first await: a click on the process button,
\* which the browser delivers only while the button is enabled
processBatch(c) ==
    /\ page = "batch"
    /\ CanSubmit
    /\ FirstFree(c)
    /\ IF selectedFile = NoFile
       THEN /\ showError(<<"Please select a CSV file first">>)
            /\ UNCHANGED <<calls, resultShown, loadingShown, submitDisabled>>
       ELSE /\ resultShown' = FALSE
            /\ errorShown' = FALSE
            /\ loadingShown' = TRUE
            /\ submitDisabled' = TRUE
            /\ calls' = [calls EXCEPT ![c] =
                            [Free EXCEPT !.pc = "reading", !.file = selectedFile]]
            /\ UNCHANGED errorText
    /\ UNCHANGED <<page, selectedFile, resultsData, fileInfoShown, stats,
                   resultsBody, downloaded, riskBadge, riskCategory, codecVars, loanVars>>

\* JSON.stringify(borrowers)
RequestBody(borrowers) ==
    [i \in 1..Len(borrowers) |-> StringifyRecord(borrowers[i])]

\* processBatch after readFileAsText has resolved: parse, then fetch
fileLoaded(c) ==
    /\ page = "batch"
    /\ calls[c].pc = "reading"
    /\ LET csvText == RenderDoc(calls[c].file.doc)
           borrowers == parseCSV(csvText)
       IN  IF ~borrowers.ok
           THEN Caught(c, borrowers.message)
           ELSE IF Len(borrowers.value) = 0
           THEN Caught(c, <<"No valid data found in CSV file">>)
           ELSE /\ calls' = [calls EXCEPT ![c].pc = "fetching",
                                          ![c].data = Arr(borrowers.value)]
                /\ UNCHANGED <<errorText, errorShown, loadingShown,
                               submitDisabled>>
    /\ UNCHANGED <<page, selectedFile, resultsData, resultShown,
                   fileInfoShown, stats, resultsBody, downloaded, riskBadge,
                   riskCategory, codecVars, loanVars>>

\* processBatch after readFileAsText has rejected (reader.onerror)
fileReadFailed(c) ==
    /\ page = "batch"
    /\ calls[c].pc = "reading"
    /\ Caught(c, <<"Failed to read file">>)
    /\ UNCHANGED <<page, selectedFile, resultsData, resultShown,
                   fileInfoShown, stats, resultsBody, downloaded, riskBadge,
                   riskCategory, codecVars, loanVars>>

\* processBatch after fetch has rejected: the transport failed
batchFetchRejected(c) ==
    /\ page = "batch"
    /\ calls[c].pc = "fetching"
    /\ Caught(c, <<"Failed to fetch">>)
    /\ UNCHANGED <<page, selectedFile, resultsData, resultShown,
                   fileInfoShown, stats, resultsBody, downloaded, riskBadge,
                   riskCategory, codecVars, loanVars>>

\* fetch has resolved with a response; the handler goes on to await
\* response.json(), on the error path or on the success path
responseArrived(c, resp) ==
    /\ page \in {"batch", "single"}
    /\ calls[c].pc = "fetching"
    /\ resp \in Responses(page)
    /\ calls' = [calls EXCEPT ![c].pc = IF IsOk(resp) THEN "okBody" ELSE "errorBody",
                              ![c].resp = resp]
    /\ UNCHANGED <<page, selectedFile, resultsData, domVars, codecVars, loanVars>>

\* as ServerErrorMessage, but the body of the answer is not looked at
ServerErrorMessageStatusOnly(errorData, status) ==
    <<"Server error: ">> \o ToDigits(status)

\* the message of the Error thrown for a response that is not ok
\* (errorData is an object here)
ServerErrorMessage(errorData, status) ==
    IF Truthy(Get(errorData, "message"))
    THEN ToText(Get(errorData, "message"))
    ELSE <<"Server error: ">> \o ToDigits(status)

\* processBatch, response not ok, after
\* response.json().catch(() => ({})) has settled
batchErrorBody(c) ==
    /\ page = "batch"
    /\ calls[c].pc = "errorBody"
    /\ LET resp == calls[c].resp
       IN  IF ~resp.body.json
           THEN Caught(c, <<"Server error: ">> \o ToDigits(resp.status))
           ELSE IF resp.body.value = Null
           THEN Caught(c, <<"Cannot read properties of null (reading 'message')">>)
           ELSE Caught(c, ServerErrorMessage(resp.body.value, resp.status))
    /\ UNCHANGED <<page, selectedFile, resultsData, resultShown,
                   fileInfoShown, stats, resultsBody, downloaded, riskBadge,
                   riskCategory, codecVars, loanVars>>

\* as CountLevel, but the tier is worked out from default_probability
CountLevelByProbability(predictions, level) ==
    Cardinality({i \in 1..Len(predictions) :
                    level = (IF predictions[i].default_probability.milli >= 600
                             THEN "High Risk"
                             ELSE IF predictions[i].default_probability.milli >= 300
                             THEN "Medium Risk" ELSE "Low Risk")})

\* the number of predictions the server has labelled with the level
CountLevel(predictions, level) ==
    Cardinality({i \in 1..Len(predictions) :
                    predictions[i].risk_level = Str(<<level>>)})

\* the cells of one row of the results table ("Rs" is the rupee sign)
TableRow(pred, index) ==
    [ index |-> ToDigits(index + 1),
      age |-> ToText(pred.borrower_summary.age),
      income |-> <<"Rs">> \o formatCurrency(pred.borrower_summary.annual_income),
      loan |-> <<"Rs">> \o formatCurrency(pred.borrower_summary.loan_amount),
      score |-> ToText(pred.borrower_summary.credit_score),
      probability |-> ToDigits(RoundPercent(pred.default_probability)) \o <<"%">>,
      riskClass |-> IF pred.risk_level = Str(<<"High Risk">>) THEN "high"
                    ELSE IF pred.risk_level = Str(<<"Medium Risk">>) THEN "medium"
                    ELSE "low",
      riskTag |-> ToText(pred.risk_level),
      action |-> ToText(pred.recommendation.action) ]

\* as displayResults, but the table keeps the rows it had
displayResultsStaleTable(predictions) ==
    /\ stats' = [ total |-> Len(predictions),
                  high |-> CountLevel(predictions, "High Risk"),
                  medium |-> CountLevel(predictions, "Medium Risk"),
                  low |-> Len(predictions)
                          - CountLevel(predictions, "High Risk")
                          - CountLevel(predictions, "Medium Risk") ]
    /\ UNCHANGED resultsBody
    /\ resultShown' = TRUE

\* displayResults(predictions)
displayResults(predictions) ==
    /\ stats' = [ total |-> Len(predictions),
                  high |-> CountLevel(predictions, "High Risk"),
                  medium |-> CountLevel(predictions, "Medium Risk"),
                  low |-> Len(predictions)
                          - CountLevel(predictions, "High Risk")
                          - CountLevel(predictions, "Medium Risk") ]
    /\ resultsBody' = [i \in 1..Len(predictions) |->
                          TableRow(predictions[i], i - 1)]
    /\ resultShown' = TRUE

\* processBatch, response ok, after response.json() has settled
batchOkBody(c) ==
    /\ page = "batch"
    /\ calls[c].pc = "okBody"
    /\ LET resp == calls[c].resp
           result == resp.body.value
           predictions == Get(result, "predictions")
       IN  IF ~resp.body.json
           THEN /\ Caught(c, <<"Unexpected token '<' is not valid JSON">>)
                /\ UNCHANGED <<resultsData, stats, resultsBody, resultShown>>
           ELSE IF result = Null
           THEN /\ Caught(c, <<"Cannot read properties of null (reading 'predictions')">>)
                /\ UNCHANGED <<resultsData, stats, resultsBody, resultShown>>
           ELSE IF predictions = Undefined
           THEN /\ resultsData' = Undefined
                /\ Caught(c, <<"Cannot read properties of undefined (reading 'length')">>)
                /\ UNCHANGED <<stats, resultsBody, resultShown>>
           ELSE /\ resultsData' = predictions
                /\ displayResults(predictions.items)
                /\ Finally(c)
                /\ UNCHANGED <<errorText, errorShown>>
    /\ UNCHANGED <<page, selectedFile, fileInfoShown, downloaded, riskBadge,
                   riskCategory, codecVars, loanVars>>

\* the first line of the exported file
ExportHeader ==
    Join(<< <<"Index">>, <<"Age">>, <<"Income">>, <<"Loan Amount">>,
            <<"Credit Score">>, <<"Default Probability">>, <<"Risk Level">>,
            <<"Recommendation">>, <<"Action Priority">> >>, <<COMMA>>)
    \o <<NL>>

\* as ExportRow, but the index column counts from zero
ExportRowZeroBased(pred, index) ==
    ToDigits(index) \o <<COMMA>>
    \o ToText(pred.borrower_summary.age) \o <<COMMA>>
    \o ToText(pred.borrower_summary.annual_income) \o <<COMMA>>
    \o ToText(pred.borrower_summary.loan_amount) \o <<COMMA>>
    \o ToText(pred.borrower_summary.credit_score) \o <<COMMA>>
    \o PercentFixed2(pred.default_probability) \o <<"%", COMMA>>
    \o <<DQ>> \o ToText(pred.risk_level) \o <<DQ, COMMA>>
    \o <<DQ>> \o ToText(pred.recommendation.action) \o <<DQ, COMMA>>
    \o <<DQ>> \o ToText(pred.recommendation.priority) \o <<DQ, NL>>

\* the text downloadResults appends for one prediction
ExportRow(pred, index) ==
    ToDigits(index + 1) \o <<COMMA>>
    \o ToText(pred.borrower_summary.age) \o <<COMMA>>
    \o ToText(pred.borrower_summary.annual_income) \o <<COMMA>>
    \o ToText(pred.borrower_summary.loan_amount) \o <<COMMA>>
    \o ToText(pred.borrower_summary.credit_score) \o <<COMMA>>
    \o PercentFixed2(pred.default_probability) \o <<"%", COMMA>>
    \o <<DQ>> \o ToText(pred.risk_level) \o <<DQ, COMMA>>
    \o <<DQ>> \o ToText(pred.recommendation.action) \o <<DQ, COMMA>>
    \o <<DQ>> \o ToText(pred.recommendation.priority) \o <<DQ, NL>>

RECURSIVE ExportRows(_, _)
ExportRows(preds, index) ==
    IF index >= Len(preds) THEN <<>>
    ELSE ExportRow(preds[index + 1], index) \o ExportRows(preds, index + 1)

\* downloadResults(); on a buffer that is not a list the handler dies
\* with an uncaught TypeError and changes nothing
downloadResults ==
    /\ page = "batch"
    /\ IF resultsData = Undefined
       THEN UNCHANGED <<errorText, errorShown, downloaded>>
       ELSE IF Len(resultsData.items) = 0
       THEN /\ showError(<<"No results to download">>)
            /\ UNCHANGED downloaded
       ELSE /\ downloaded' = ExportHeader \o ExportRows(resultsData.items, 0)
            /\ UNCHANGED <<errorText, errorShown>>
    /\ UNCHANGED <<page, selectedFile, resultsData, calls, submitDisabled,
                   loadingShown, resultShown, fileInfoShown, stats,
                   resultsBody, riskBadge, riskCategory, codecVars, loanVars>>

\* as resetForm, but a pending request is abandoned with the form
resetFormAborting ==
    /\ page = "batch"
    /\ selectedFile' = NoFile
    /\ resultsData' = Arr(<<>>)
    /\ fileInfoShown' = FALSE
    /\ resultShown' = FALSE
    /\ errorShown' = FALSE
    /\ calls' = [c \in Calls |-> Free]
    /\ loadingShown' = FALSE
    /\ submitDisabled' = FALSE
    /\ UNCHANGED <<page, errorText, stats, resultsBody, downloaded,
                   riskBadge, riskCategory, codecVars, loanVars>>

\* resetForm() of batch.js
resetForm ==
    /\ page = "batch"
    /\ selectedFile' = NoFile
    /\ resultsData' = Arr(<<>>)
    /\ fileInfoShown' = FALSE
    /\ resultShown' = FALSE
    /\ errorShown' = FALSE
    /\ UNCHANGED <<page, calls, submitDisabled, loadingShown, errorText,
                   stats, resultsBody, downloaded, riskBadge, riskCategory,
                   codecVars, loanVars>>

(***************************************************************************)
(* The single-prediction page                                              *)
(***************************************************************************)
numericFields ==
    { "person_age", "person_income", "person_emp_exp", "loan_amnt",
      "loan_int_rate", "cb_person_cred_hist_length", "credit_score" }

\* what the user has typed into the form, field by field
FormOf(row) == [k \in {<<f>> : f \in Required} |-> Str(row[k[1]])]

Forms ==
    { FormOf(TemplateRow1),
      [FormOf(TemplateRow2) EXCEPT ![<<"person_age">>] = Str(<<>>)] }

\* collectFormData()
collectFormData(form) ==
    [k \in DOMAIN form |->
        IF \E f \in numericFields : k = <<f>> THEN parseFloat(form[k])
        ELSE form[k]]

\* showError(message) of the single-prediction page is showError above;
\* the catch and finally blocks of the submit handler
CaughtSingle(c, message) ==
    /\ showError(<<"Unable to process prediction: ">> \o message
                 \o <<". Please ensure the API server is running.">>)
    /\ Finally(c)

\* the submit handler of #predictionForm up to its first await; the browser
\* submits the form only while its submit button is enabled
submitPrediction(c, form) ==
    /\ page = "single"
    /\ CanSubmit
    /\ FirstFree(c)
    /\ resultShown' = FALSE
    /\ errorShown' = FALSE
    /\ loadingShown' = TRUE
    /\ submitDisabled' = TRUE
    /\ calls' = [calls EXCEPT ![c] =
                    [Free EXCEPT !.pc = "fetching",
                                 !.data = Obj(collectFormData(form))]]
    /\ UNCHANGED <<page, selectedFile, resultsData, errorText, fileInfoShown,
                   stats, resultsBody, downloaded, riskBadge, riskCategory,
                   codecVars, loanVars>>

\* the submit handler after fetch has rejected
singleFetchRejected(c) ==
    /\ page = "single"
    /\ calls[c].pc = "fetching"
    /\ CaughtSingle(c, <<"Failed to fetch">>)
    /\ UNCHANGED <<page, selectedFile, resultsData, resultShown,
                   fileInfoShown, stats, resultsBody, downloaded, riskBadge,
                   riskCategory, codecVars, loanVars>>

\* the submit handler, response not ok, after response.json() has settled
singleErrorBody(c) ==
    /\ page = "single"
    /\ calls[c].pc = "errorBody"
    /\ LET resp == calls[c].resp
       IN  IF ~resp.body.json
           THEN CaughtSingle(c, <<"Unexpected token '<' is not valid JSON">>)
           ELSE IF resp.body.value = Null
           THEN CaughtSingle(c, <<"Cannot read properties of null (reading 'message')">>)
           ELSE CaughtSingle(c, ServerErrorMessage(resp.body.value, resp.status))
    /\ UNCHANGED <<page, selectedFile, resultsData, resultShown,
                   fileInfoShown, stats, resultsBody, downloaded, riskBadge,
                   riskCategory, codecVars, loanVars>>

\* Math.round(result.default_probability * 100)
Probability(result) ==
    LET dp == Get(result, "default_probability")
    IN  IF dp.t = "number" THEN Num(RoundPercent(dp) * 1000) ELSE NaN

\* getRiskInfo(probability)
getRiskInfo(probability) ==
    IF probability.t = "number" /\ probability.milli >= 60000
    THEN [level |-> <<"High Risk">>, class |-> "risk-high", color |-> "#ff4757"]
    ELSE IF probability.t = "number" /\ probability.milli >= 30000
    THEN [level |-> <<"Medium Risk">>, class |-> "risk-medium", color |-> "#ffa502"]
    ELSE [level |-> <<"Low Risk">>, class |-> "risk-low", color |-> "#26de81"]

\* the submit handler, response ok, after response.json() has settled:
\* displayResult(result, borrowerData), which throws where the answer
\* lacks the summary or the recommendation
singleOkBody(c) ==
    /\ page = "single"
    /\ calls[c].pc = "okBody"
    /\ LET resp == calls[c].resp
           result == resp.body.value
           riskInfo == getRiskInfo(Probability(result))
           recommendation == Get(result, "recommendation")
       IN  IF ~resp.body.json
           THEN /\ CaughtSingle(c, <<"Unexpected token '<' is not valid JSON">>)
                /\ UNCHANGED <<riskBadge, riskCategory, resultShown>>
           ELSE IF result = Null
           THEN /\ CaughtSingle(c, <<"Cannot read properties of null (reading 'default_probability')">>)
                /\ UNCHANGED <<riskBadge, riskCategory, resultShown>>
           ELSE IF Get(result, "borrower_summary") = Undefined
           THEN /\ riskBadge' = riskInfo.level
                /\ CaughtSingle(c, <<"Cannot read properties of undefined (reading 'loan_to_income_ratio')">>)
                /\ UNCHANGED <<riskCategory, resultShown>>
           ELSE IF recommendation = Undefined
           THEN /\ riskBadge' = riskInfo.level
                /\ CaughtSingle(c, <<"Cannot read properties of undefined (reading 'next_steps')">>)
                /\ UNCHANGED <<riskCategory, resultShown>>
           ELSE /\ riskBadge' = riskInfo.level
                /\ riskCategory' =
                       IF Truthy(Get(recommendation, "risk_level"))
                       THEN ToText(Get(recommendation, "risk_level"))
                       ELSE <<"Unknown">>
                /\ resultShown' = TRUE
                /\ Finally(c)
                /\ UNCHANGED <<errorText, errorShown>>
    /\ UNCHANGED <<page, selectedFile, resultsData, fileInfoShown, stats,
                   resultsBody, downloaded, codecVars, loanVars>>

\* resetForm() of the single-prediction page
resetFormSingle ==
    /\ page = "single"
    /\ resultShown' = FALSE
    /\ errorShown' = FALSE
    /\ UNCHANGED <<page, selectedFile, resultsData, calls, submitDisabled,
                   loadingShown, errorText, fileInfoShown, stats, resultsBody,
                   downloaded, riskBadge, riskCategory, codecVars, loanVars>>

(***************************************************************************)
(* script.js: the loan application page with its simulated model           *)
(***************************************************************************)
\* setTimeout(..., 2000): the simulated processing time, in milliseconds
ProcessingDelay == 2000

\* setTimeout(..., 1500): how long the modal stays once the result is out
ModalDelay == 1500

\* most timeouts that are set and not yet run
MaxTimers == 2

\* the fields the handler turns into numbers
loanNumericFields ==
    {"age", "annualIncome", "creditScore", "loanAmount", "loanTenure"}

\* two applicants and what they type
ApplicantA ==
    [ age |-> Str(<<"3", "0">>),
      annualIncome |-> Str(<<"6", "0", "0", "0", "0">>),
      creditScore |-> Str(<<"7", "6", "0">>),
      loanAmount |-> Str(<<"2", "0", "0", "0", "0">>),
      loanTenure |-> Str(<<"5">>),
      employmentStatus |-> Str(<<"Employed">>),
      loanPurpose |-> Str(<<"Home">>) ]

ApplicantB ==
    [ age |-> Str(<<"4", "1">>),
      annualIncome |-> Str(<<"1", "5", "0", "0", "0">>),
      creditScore |-> Str(<<"6", "9", "0">>),
      loanAmount |-> Str(<<"9", "0", "0", "0">>),
      loanTenure |-> Str(<<"3">>),
      employmentStatus |-> Str(<<"Self-Employed">>),
      loanPurpose |-> Str(<<"Car">>) ]

Applicants == {ApplicantA, ApplicantB}

\* Math.floor(Math.random() * 10000): two of the numbers it can give
RandomIds == {7, 4242}

\* the stretches of time, in milliseconds, that pass between two events
Waits == {500, 1000, 1500, 2000}

\* form.checkValidity(): every field of the form is required
checkValidity(form) == \A k \in DOMAIN form : form[k].s # <<>>

\* the mapping loop: numbers for the five numeric fields, text otherwise
borrowerDataOf(form) ==
    [k \in DOMAIN form |->
        IF k \in loanNumericFields THEN parseFloat(form[k]) ELSE form[k]]

RECURSIVE GroupThrees(_)
GroupThrees(ds) ==
    IF Len(ds) <= 3 THEN ds
    ELSE GroupThrees(SubSeq(ds, 1, Len(ds) - 3))
         \o <<COMMA>> \o SubSeq(ds, Len(ds) - 2, Len(ds))

\* toLocaleString('en-US') of a whole number
toLocaleString(v) == GroupThrees(ToDigits(v.milli \div 1000))

\* (a / b).toFixed(2) of two positive numbers
RatioFixed2(a, b) ==
    LET whole == a.milli \div b.milli
        r1 == (a.milli % b.milli) * 10
        r2 == (r1 % b.milli) * 10
        hundredths == whole * 100 + (r1 \div b.milli) * 10
                      + (2 * r2 + b.milli) \div (2 * b.milli)
    IN  ToDigits(hundredths \div 100)
        \o <<DOT, Digits[((hundredths \div 10) % 10) + 1],
             Digits[(hundredths % 10) + 1]>>

\* the members of dummyModelResponse, in the order they are written
dummyModelResponse(borrowerData, n) ==
    LET isApproved == /\ borrowerData.creditScore.milli >= 680000
                      /\ borrowerData.annualIncome.milli >= 12 * 1500000
        rate == IF borrowerData.creditScore.milli >= 750000 THEN <<"5", DOT, "5", "%">>
                ELSE IF borrowerData.creditScore.milli >= 680000 THEN <<"7", DOT, "2", "%">>
                ELSE <<"8", DOT, "9", "%">>
        maxLoan == IF isApproved
                   THEN toLocaleString(Num(borrowerData.annualIncome.milli * 3))
                   ELSE <<"N/A">>
    IN  << <<"applicant_id", Str(<<"CP-2025-">> \o ToDigits(n))>>,
           <<"eligibility_status",
             Str(IF isApproved THEN <<"APPROVED">> ELSE <<"PENDING_REVIEW">>)>>,
           <<"recommended_loan_amount_approved", Str(maxLoan \o <<" USD">>)>>,
           <<"recommended_interest_rate", Str(rate)>>,
           <<"loan_tenure_years", borrowerData.loanTenure>>,
           <<"annual_income",
             Str(toLocaleString(borrowerData.annualIncome) \o <<" USD">>)>>,
           <<"loan_to_income_ratio",
             Str(RatioFixed2(borrowerData.loanAmount, borrowerData.annualIncome))>>,
           <<"employment_risk",
             Str(IF borrowerData.employmentStatus = Str(<<"Self-Employed">>)
                 THEN <<"Medium">> ELSE <<"Low">>)>>,
           <<"details",
             Str(<<"Application for ">> \o borrowerData.loanPurpose.s
                 \o <<" loan successfully received and preliminary assessment completed.">>)>> >>

\* JSON.stringify(members, null, 2)
StringifyIndented(members) ==
    <<"{", NL>>
    \o Join([i \in 1..Len(members) |->
                <<SP, SP, DQ, members[i][1], DQ, ":", SP>>
                \o (IF members[i][2].t = "string"
                    THEN <<DQ>> \o members[i][2].s \o <<DQ>>
                    ELSE ToText(members[i][2]))],
            <<COMMA, NL>>)
    \o <<NL, "}">>

\* the user types an applicant's values into the form
fillLoanForm(applicant) ==
    /\ page = "loan"
    /\ loanForm' = applicant
    /\ UNCHANGED <<flowVars, codecVars, modalShown, modelResult, timers>>

\* the submit handler of #loanForm; n is what Math.random gives
submitLoan(n) ==
    /\ page = "loan"
    /\ checkValidity(loanForm) => Len(timers) < MaxTimers
    /\ resultShown' = FALSE
    /\ IF ~checkValidity(loanForm)
       THEN UNCHANGED loanVars
       ELSE /\ modalShown' = TRUE
            /\ timers' = Append(timers,
                   [ kind |-> "showResult", left |-> ProcessingDelay,
                     text |-> StringifyIndented(
                                  dummyModelResponse(borrowerDataOf(loanForm), n)) ])
            /\ loanForm' = [k \in DOMAIN loanForm |-> Str(<<>>)]
            /\ UNCHANGED modelResult
    /\ UNCHANGED <<page, selectedFile, resultsData, calls, submitDisabled,
                   loadingShown, errorShown, errorText, fileInfoShown, stats,
                   resultsBody, downloaded, riskBadge, riskCategory, codecVars>>

\* time passes: no timeout is overdue and none becomes overdue unrun
timePasses(d) ==
    /\ page = "loan"
    /\ timers # <<>>
    /\ \A i \in 1..Len(timers) : timers[i].left >= d
    /\ timers' = [i \in 1..Len(timers) |->
                     [timers[i] EXCEPT !.left = timers[i].left - d]]
    /\ UNCHANGED <<flowVars, codecVars, loanForm, modalShown, modelResult>>

\* the timeouts but the one at place i
Others(i) ==
    SubSeq(timers, 1, i - 1) \o SubSeq(timers, i + 1, Len(timers))

\* the browser runs the callback of the timeout that is due and was set
\* first: the outer one shows the result and sets the inner one, the inner
\* one hides the modal
timerFires ==
    /\ page = "loan"
    /\ \E i \in 1..Len(timers) :
          /\ timers[i].left = 0
          /\ \A j \in 1..(i - 1) : timers[j].left # 0
          /\ IF timers[i].kind = "showResult"
             THEN /\ modelResult' = timers[i].text
                  /\ resultShown' = TRUE
                  /\ timers' = Append(Others(i),
                         [ kind |-> "hideModal", left |-> ModalDelay,
                           text |-> <<>> ])
                  /\ UNCHANGED modalShown
             ELSE /\ modalShown' = FALSE
                  /\ timers' = Others(i)
                  /\ UNCHANGED <<modelResult, resultShown>>
    /\ UNCHANGED <<page, selectedFile, resultsData, calls, submitDisabled,
                   loadingShown, errorShown, errorText, fileInfoShown, stats,
                   resultsBody, downloaded, riskBadge, riskCategory, codecVars,
                   loanForm>>

\* click on .close-btn
closeBtnClick ==
    /\ page = "loan"
    /\ modalShown' = FALSE
    /\ UNCHANGED <<flowVars, codecVars, loanForm, modelResult, timers>>

\* click anywhere in the window: the modal closes where the click was on
\* the modal itself
windowClick(target) ==
    /\ page = "loan"
    /\ modalShown' = (IF target = "successModal" THEN FALSE ELSE modalShown)
    /\ UNCHANGED <<flowVars, codecVars, loanForm, modelResult, timers>>

(***************************************************************************)
(* The three pages as one system: a browser tab holds one of them          *)
(***************************************************************************)
Init ==
    /\ page \in {"batch", "single", "loan"}
    /\ PageLoaded
    /\ csvDoc = NoDoc
    /\ decoded = NotRun

Next ==
    \/ \E file \in Files : handleFile(file)
    \/ \E c \in Calls : processBatch(c)
    \/ \E c \in Calls : fileLoaded(c)
    \/ \E c \in Calls : fileReadFailed(c)
    \/ \E c \in Calls : batchFetchRejected(c)
    \/ \E c \in Calls : \E resp \in Responses(page) : responseArrived(c, resp)
    \/ \E c \in Calls : batchErrorBody(c)
    \/ \E c \in Calls : batchOkBody(c)
    \/ downloadResults
    \/ resetForm
    \/ \E c \in Calls : \E form \in Forms : submitPrediction(c, form)
    \/ \E c \in Calls : singleFetchRejected(c)
    \/ \E c \in Calls : singleErrorBody(c)
    \/ \E c \in Calls : singleOkBody(c)
    \/ resetFormSingle
    \/ \E applicant \in Applicants : fillLoanForm(applicant)
    \/ \E n \in RandomIds : submitLoan(n)
    \/ \E d \in Waits : timePasses(d)
    \/ timerFires
    \/ closeBtnClick
    \/ \E target \in {"successModal", "body"} : windowClick(target)

Spec == Init /\ [][Next]_vars

(***************************************************************************)
(* The pages with every pending promise settled in the end.  The inputs    *)
(* are one of each kind that takes a handler down a different path: a file *)
(* that decodes, one that fails validation, one with another extension;    *)
(* an answer of every shape for either status.                             *)
(***************************************************************************)
LiveFiles ==
    {[name |-> CsvName, doc |-> GoodDoc],
     [name |-> CsvName, doc |-> MissingColumnsDoc],
     [name |-> TxtName, doc |-> GoodDoc]}

LiveBodies(pg) ==
    {NotJson, Json(Null), MessageBody, DetailBody}
    \cup (IF pg = "batch" THEN {PredictionsBody(<<PredLow, PredMedium>>)}
          ELSE {ResultBody(450), ResultNoLevel})

LiveResponses(pg) ==
    {[status |-> st, body |-> b] : st \in Statuses, b \in LiveBodies(pg)}

\* One more step of activation c: every await of the two handlers is on a
\* promise the browser settles (FileReader fires onload or onerror, fetch
\* resolves with a response or rejects, response.json() resolves or
\* rejects), and the event loop then runs the continuation.
Continue(c) ==
    \/ fileReadFailed(c)
    \/ fileLoaded(c)
    \/ batchFetchRejected(c)
    \/ \E resp \in LiveResponses(page) : responseArrived(c, resp)
    \/ batchErrorBody(c)
    \/ batchOkBody(c)
    \/ singleFetchRejected(c)
    \/ singleErrorBody(c)
    \/ singleOkBody(c)

NextLive ==
    \/ \E file \in LiveFiles : handleFile(file)
    \/ \E c \in Calls : processBatch(c)
    \/ \E c \in Calls : Continue(c)
    \/ downloadResults
    \/ resetForm
    \/ \E c \in Calls : submitPrediction(c, FormOf(TemplateRow1))
    \/ resetFormSingle

SpecLive ==
    Init /\ [][NextLive]_vars /\ \A c \in Calls : WF_vars(Continue(c))

(***************************************************************************)
(* Properties of the decoder                                               *)
(***************************************************************************)
HeaderSet(doc) == {doc.header[i] : i \in 1..Len(doc.header)}
MissingSet(doc) == Required \ HeaderSet(doc)
DataLines(doc) == SelectSeq(doc.lines, LAMBDA k : k \in DataKinds)
WasDecoded == decoded # NotRun

\* the column names a message mentions
NamedIn(msg) ==
    {f \in Required \cup {"notes"} : \E i \in 1..Len(msg) : msg[i] = f}

\* C4: for text with a header and at least one data row, decoding succeeds
\* when all ten required columns are in the header (any order), and when
\* the set M of absent required columns is not empty it fails with a
\* message naming every column of M and no column that is present.
C4_HeaderValidation ==
    (WasDecoded /\ csvDoc.header # <<>> /\ DataLines(csvDoc) # <<>>) =>
        IF MissingSet(csvDoc) = {}
        THEN decoded.ok
        ELSE /\ ~decoded.ok
             /\ NamedIn(decoded.message) = MissingSet(csvDoc)

C4_Witness ==
    /\ WasDecoded
    /\ DataLines(csvDoc) # <<>>
    /\ "notes" \in HeaderSet(csvDoc)
    /\ Cardinality(MissingSet(csvDoc)) = 3
    /\ ~decoded.ok
    /\ Cardinality(NamedIn(decoded.message)) = 3

\* what the template rows say, column by column
Row1Values ==
    [ person_age |-> Num(30000), person_income |-> Num(500000000),
      person_emp_exp |-> Num(5000),
      person_home_ownership |-> Str(<<"RENT">>),
      loan_amnt |-> Num(150000000), loan_int_rate |-> Num(10500),
      loan_intent |-> Str(<<"EDUCATION">>), credit_score |-> Num(650000),
      cb_person_cred_hist_length |-> Num(8000),
      previous_loan_defaults_on_file |-> Str(<<"No">>),
      notes |-> Str(<<"n1">>) ]

Row2Values ==
    [ person_age |-> Num(25000), person_income |-> Num(300000000),
      person_emp_exp |-> Num(2000),
      person_home_ownership |-> Str(<<"OWN">>),
      loan_amnt |-> Num(80000000), loan_int_rate |-> Num(12000),
      loan_intent |-> Str(<<"MEDICAL">>), credit_score |-> Num(580000),
      cb_person_cred_hist_length |-> Num(4000),
      previous_loan_defaults_on_file |-> Str(<<"No">>),
      notes |-> Str(<<"n2">>) ]

\* the row with a word for the age says no number there
BadValues == [Row1Values EXCEPT !.person_age = NaN]

\* record rec carries the values of a data line of the given kind: each
\* column the line has a cell for holds that cell's value (a numeric column
\* whose cell says no number is left open here), and a column the line has
\* no cell for holds no value of any line
BuiltFrom(rec, header, kind) ==
    LET vals == IF kind = "row2" THEN Row2Values
                ELSE IF kind = "bad" THEN BadValues ELSE Row1Values
        n == Len(RowCells(header, kind))
    IN  /\ DOMAIN rec = {<<header[i]>> : i \in 1..Len(header)}
        /\ \A i \in 1..Len(header) :
              IF i <= n THEN \/ vals[header[i]] = NaN
                             \/ rec[<<header[i]>>] = vals[header[i]]
              ELSE rec[<<header[i]>>] \in {Undefined, Num(0)}

\* C5: under a valid header, N >= 1 non-blank data rows, possibly
\* interleaved with blank lines, decode to exactly N records, the i-th
\* record built from the i-th non-blank data row in file order.
C5_RowsInOrder ==
    (WasDecoded /\ MissingSet(csvDoc) = {} /\ DataLines(csvDoc) # <<>>) =>
        /\ decoded.ok
        /\ Len(decoded.value) = Len(DataLines(csvDoc))
        /\ \A i \in 1..Len(DataLines(csvDoc)) :
              BuiltFrom(decoded.value[i], csvDoc.header, DataLines(csvDoc)[i])

C5_Witness ==
    /\ WasDecoded
    /\ decoded.ok
    /\ csvDoc.lines = <<"row2", "spaces", "row1">>
    /\ Len(decoded.value) = 2
    /\ decoded.value[2][<<"person_home_ownership">>] = Str(<<"RENT">>)

(***************************************************************************)
(* Properties of the two flows                                             *)
(***************************************************************************)
Pending(c) == calls[c].pc # "free"
InFlight(c) == calls[c].pc \in {"fetching", "okBody", "errorBody"}

\* C1: in both flows the submit control is disabled from the moment a
\* submission starts its work until its handling has finished, and no two
\* network requests of the flow are in flight at once.
C1_OneRequestPerFlow ==
    /\ \A c \in Calls : Pending(c) => submitDisabled
    /\ Cardinality({c \in Calls : InFlight(c)}) <= 1

C1_Witness ==
    /\ page = "batch"
    /\ submitDisabled
    /\ \E c \in Calls : calls[c].pc = "fetching"

\* the records of the request body of activation c
SentRecords(c) == RequestBody(calls[c].data.items)

\* C2 (as claimed): every record of a batch request body has all ten
\* required fields; a row lacking a value for a required column is
\* rejected before any network call.
C2_Claim ==
    \A c \in Calls :
        (page = "batch" /\ InFlight(c)) =>
            \A i \in 1..Len(SentRecords(c)) :
                \A f \in Required : <<f>> \in DOMAIN SentRecords(c)[i]

\* a document the client is to refuse: no data row, or a required column
\* absent from the header
FailsValidation(doc) == DataLines(doc) = <<>> \/ MissingSet(doc) # {}

\* C3: a batch submission whose input fails client-side validation (no
\* file, fewer than two lines, a required column missing, no records)
\* ends in an error shown to the user and never issues a network request.
C3_ValidationBeforeNetwork ==
    [][ /\ (page = "batch" /\ selectedFile = NoFile
              /\ \E c \in Calls : processBatch(c))
           => /\ errorShown'
              /\ errorText' = <<"Please select a CSV file first">>
              /\ calls' = calls
        /\ \A c \in Calls :
              (/\ calls[c].pc = "reading"
               /\ FailsValidation(calls[c].file.doc)
               /\ calls'[c] # calls[c])
              => /\ calls'[c].pc = "free"
                 /\ errorShown'
                 /\ errorText'[1] = "Failed to process batch: " ]_vars

C3_Witness ==
    /\ page = "batch"
    /\ \A c \in Calls : ~Pending(c)
    /\ errorShown
    /\ errorText = <<"Failed to process batch: ", "Missing required columns: ",
                     "loan_amnt", COMMA, SP, "credit_score">>

\* the tier the breakpoints 0.30 and 0.60 give a probability in thousandths
TierOf(p) ==
    IF p >= 600 THEN <<"High Risk">>
    ELSE IF p >= 300 THEN <<"Medium Risk">>
    ELSE <<"Low Risk">>

\* activation c of the single flow completes with the result displayed
Displays(c) ==
    /\ page = "single"
    /\ calls[c].pc = "okBody"
    /\ calls'[c].pc = "free"
    /\ resultShown'

\* C6 (as claimed): for every default probability p in [0, 1] the displayed
\* tier is High Risk iff p >= 0.60, Medium Risk iff 0.30 <= p < 0.60 and
\* Low Risk otherwise.
C6_Claim ==
    [][ \A c \in Calls :
            Displays(c) =>
                riskBadge' = TierOf(Get(calls[c].resp.body.value,
                                        "default_probability").milli) ]_vars

\* the fixed text each flow puts around the message of a failure
Wrapped(pg, message) ==
    IF pg = "batch" THEN <<"Failed to process batch: ">> \o message
    ELSE <<"Unable to process prediction: ">> \o message
         \o <<". Please ensure the API server is running.">>

\* activation c completes the handling of a response that is not ok
FailsWith(c, resp) ==
    /\ calls[c].pc = "errorBody"
    /\ calls[c].resp = resp
    /\ calls'[c].pc = "free"

ModelUnavailable500 == [status |-> 500, body |-> MessageBody]

\* C7 (as claimed): after status 500 with body {"message": "model
\* unavailable"} the text of the error region is exactly that message.
C7_Claim ==
    [][ \A c \in Calls :
            FailsWith(c, ModelUnavailable500) =>
                errorShown' /\ errorText' = <<"model unavailable">> ]_vars

\* C7 (amended): after status 500 with body {"message": "model
\* unavailable"} the error region is shown and its text is that message
\* inside the fixed text of the flow.
C7_MessageSurfaced ==
    [][ \A c \in Calls :
            FailsWith(c, ModelUnavailable500) =>
                /\ errorShown'
                /\ errorText' = Wrapped(page, <<"model unavailable">>) ]_vars

C7_Witness ==
    /\ page = "single"
    /\ errorShown
    /\ \A c \in Calls : ~Pending(c)
    /\ errorText = <<"Unable to process prediction: ", "model unavailable",
                     ". Please ensure the API server is running.">>

\* the message a response that is not ok is to be reported with
ExpectedReport(resp) ==
    IF /\ resp.body.json
       /\ resp.body.value.t = "object"
       /\ "message" \in DOMAIN resp.body.value.fields
    THEN resp.body.value.fields["message"].s
    ELSE <<"Server error: ">> \o ToDigits(resp.status)

\* C8 (as claimed): in both flows a response that is not 2xx is reported
\* with the message of its JSON body when there is one, and otherwise
\* (no body, not JSON, no message) with the generic message carrying the
\* status code.
C8_Claim ==
    [][ \A c \in Calls :
            (calls[c].pc = "errorBody" /\ calls'[c].pc = "free") =>
                /\ errorShown'
                /\ errorText' = Wrapped(page, ExpectedReport(calls[c].resp)) ]_vars

\* the cells of line k of a text
CellsOfLine(text, k) == Split(Split(text, NL)[k], COMMA)

\* C9: for a buffer of N results the exported text is exactly N+1 lines,
\* the nine-column header and one row per result in buffer order, the
\* first column of the k-th row being k.
C9_ExportShape ==
    [][ downloaded' # downloaded =>
            LET N == Len(resultsData.items)
                lines == Split(downloaded', NL)
            IN  /\ Len(lines) = N + 2
                /\ lines[N + 2] = <<>>
                /\ Len(CellsOfLine(downloaded', 1)) = 9
                /\ \A k \in 1..N :
                      LET cells == CellsOfLine(downloaded', k + 1)
                      IN  /\ Len(cells) = 9
                          /\ DecValue(cells[1]) = k
                          /\ cells[7] = <<DQ>> \o resultsData.items[k].risk_level.s
                                        \o <<DQ>>
                          /\ parseFloat(Str(cells[2]))
                             = resultsData.items[k].borrower_summary.age ]_vars

C9_Witness ==
    /\ Len(Split(downloaded, NL)) = 5
    /\ CellsOfLine(downloaded, 4)[1] = <<"3">>
    /\ CellsOfLine(downloaded, 4)[7] = <<DQ, "Low Risk", DQ>>

\* C10 (as claimed): the results buffer is only ever replaced as a whole;
\* it is empty or the complete predictions list of one batch response.
C10_Claim ==
    [][ resultsData' # resultsData =>
            \/ resultsData' = Arr(<<>>)
            \/ \E c \in Calls :
                  /\ calls[c].pc = "okBody"
                  /\ calls[c].resp.body \in {PredictionsBody(l) : l \in PredLists}
                  /\ resultsData' = calls[c].resp.body.value.fields["predictions"] ]_vars

(***************************************************************************)
(* C11                                                                     *)
(***************************************************************************)
\* some data line of the document has a word in a numeric column
HasUnparsable(doc) == \E i \in 1..Len(doc.lines) : doc.lines[i] = "bad"

\* C11: when the value of a numeric field cannot be parsed as a number,
\* the field mapper signals an invalid-numeric-input condition to its
\* caller instead of producing a record with a defaulted value: decoding a
\* document with a valid header and such a row does not return records.
C11_Claim ==
    (WasDecoded /\ MissingSet(csvDoc) = {} /\ HasUnparsable(csvDoc)) =>
        ~decoded.ok

(***************************************************************************)
(* C12                                                                     *)
(***************************************************************************)
RiskLabels == {<<"Low Risk">>, <<"Medium Risk">>, <<"High Risk">>}

\* C12: every risk-tier label the client shows - the risk badge and the
\* risk category text of the single-prediction result, the risk tag of
\* each row of the batch table - is 'Low Risk', 'Medium Risk' or
\* 'High Risk', for every server response.
C12_Claim ==
    /\ (page = "single" /\ resultShown) =>
           (riskBadge \in RiskLabels /\ riskCategory \in RiskLabels)
    /\ (page = "batch" /\ resultShown) =>
           \A i \in 1..Len(resultsBody) : resultsBody[i].riskTag \in RiskLabels

(***************************************************************************)
(* C13                                                                     *)
(***************************************************************************)
FlowPrefix ==
    IF page = "batch" THEN "Failed to process batch: "
    ELSE "Unable to process prediction: "

\* activation c ends with this step
Completes(c) == Pending(c) /\ calls'[c].pc = "free"

\* C13: every submission that starts a request, whatever its outcome,
\* eventually hides the loading indicator and re-enables the submit
\* control; its last step does both, and where it shows no result it
\* leaves the error region visible with the message of this failure in
\* place of any earlier one.
C13_Settles ==
    /\ \A c \in Calls :
          Pending(c) ~> (~Pending(c) /\ ~loadingShown /\ ~submitDisabled)
    /\ [][\A c \in Calls :
            Completes(c) =>
               /\ ~loadingShown'
               /\ ~submitDisabled'
               /\ ~resultShown' =>
                     (errorShown' /\ errorText' # <<>>
                      /\ errorText'[1] = FlowPrefix)]_vars

\* a failed submission is over, its message written to the error region,
\* and the next submission has been made and has sent its request
C13_Witness ==
    /\ page = "batch"
    /\ \E c \in Calls : calls[c].pc = "fetching"
    /\ ~errorShown
    /\ errorText # <<>>
    /\ errorText[1] = "Failed to process batch: "

(***************************************************************************)
(* C14                                                                     *)
(***************************************************************************)
NumericListed ==
    {"person_age", "person_income", "person_emp_exp", "loan_amnt",
     "loan_int_rate", "credit_score", "cb_person_cred_hist_length"}

\* what a data line of the given kind says in the given column: a number
\* in a numeric-listed column, the text in any other, and nothing where
\* the line has no cell for the column or no number in it
SaidBy(header, kind, i) ==
    LET vals == IF kind = "row2" THEN Row2Values
                ELSE IF kind = "bad" THEN BadValues ELSE Row1Values
    IN  IF i > Len(RowCells(header, kind)) THEN Undefined
        ELSE vals[header[i]]

\* C14: for a CSV row decoded under a valid header, each of the seven
\* numeric-listed fields of the record is a number parsed from the row's
\* value and each other field is the row's value as a string.
C14_Claim ==
    (WasDecoded /\ MissingSet(csvDoc) = {} /\ decoded.ok) =>
        \A r \in 1..Len(decoded.value) :
            r <= Len(DataLines(csvDoc)) =>
                \A i \in 1..Len(csvDoc.header) :
                    LET field == decoded.value[r][<<csvDoc.header[i]>>]
                        said == SaidBy(csvDoc.header, DataLines(csvDoc)[r], i)
                    IN  /\ field = said
                        /\ field.t = IF csvDoc.header[i] \in NumericListed
                                     THEN "number" ELSE "string"

(***************************************************************************)
(* C15                                                                     *)
(***************************************************************************)
\* activation c has received an ok answer that carries this list
AnsweredWith(c, list) ==
    /\ page = "batch"
    /\ calls[c].pc = "okBody"
    /\ calls[c].resp.body = PredictionsBody(list)

\* C15: a batch request, once issued, is never cancelled: resetForm leaves
\* the pending activations as they are, and an ok answer is processed when
\* it arrives, whether or not the form was reset meanwhile: the results
\* buffer holds the predictions and the results section is shown.
C15_NeverCancelled ==
    [][/\ resetForm => calls' = calls
       /\ \A c \in Calls : \A list \in PredLists :
             (AnsweredWith(c, list) /\ Completes(c)) =>
                 (resultsData' = Arr(list) /\ resultShown')]_vars

\* the form was reset while the request was in flight (no file is
\* selected any more) and the answer has repopulated the buffer and
\* brought the results section back
C15_Witness ==
    /\ page = "batch"
    /\ selectedFile = NoFile
    /\ ~fileInfoShown
    /\ resultShown
    /\ resultsData = Arr(<<PredHigh, PredMedium, PredLow>>)
    /\ \A c \in Calls : ~Pending(c)

(***************************************************************************)
(* C16                                                                     *)
(***************************************************************************)
\* the predictions of the list that carry the label
Labelled(list, label) ==
    SelectSeq(list, LAMBDA pred : pred.risk_level = Str(<<label>>))

\* the predictions of the list that carry neither label
Remaining(list) ==
    SelectSeq(list, LAMBDA pred : /\ pred.risk_level # Str(<<"High Risk">>)
                                   /\ pred.risk_level # Str(<<"Medium Risk">>))

\* C16: the summary counts are tallied from the server's risk_level only:
\* high is the number of predictions labelled 'High Risk', medium the
\* number labelled 'Medium Risk', low counts all remaining predictions,
\* and the three add up to the displayed total, the length of the list.
C16_Counts ==
    [][\A c \in Calls : \A list \in PredLists :
          (AnsweredWith(c, list) /\ Completes(c)) =>
              /\ stats'.total = Len(list)
              /\ stats'.high = Len(Labelled(list, "High Risk"))
              /\ stats'.medium = Len(Labelled(list, "Medium Risk"))
              /\ stats'.low = Len(Remaining(list))
              /\ stats'.high + stats'.medium + stats'.low = stats'.total]_vars

\* a list with a prediction of probability 0.95 under a label that is
\* neither 'High Risk' nor 'Medium Risk' has been tallied: it counts as low
C16_Witness ==
    /\ page = "batch"
    /\ resultShown
    /\ resultsData = Arr(<<PredOdd, PredHigh>>)
    /\ stats = [total |-> 2, high |-> 1, medium |-> 0, low |-> 1]

(***************************************************************************)
(* C17                                                                     *)
(***************************************************************************)
\* C17: after any sequence of file selections, submissions, downloads and
\* resets, and for any server response, the results buffer is a list, so
\* that downloadResults can read its length.
C17_Claim == page = "batch" => resultsData.t = "array"

(***************************************************************************)
(* C18                                                                     *)
(***************************************************************************)
\* table row number i shows prediction pred
Shows(row, pred, i) ==
    /\ row.index = ToDigits(i)
    /\ Str(row.age) = Str(NumToString(pred.borrower_summary.age.milli))
    /\ Str(row.riskTag) = pred.risk_level
    /\ Str(row.action) = pred.recommendation.action

\* C18: whenever the results section is visible, the results buffer that
\* downloadResults reads is the predictions list the results table shows,
\* row for row.
C18_BufferIsTable ==
    (page = "batch" /\ resultShown) =>
        /\ resultsData.t = "array"
        /\ Len(resultsBody) = Len(resultsData.items)
        /\ \A i \in 1..Len(resultsBody) :
              Shows(resultsBody[i], resultsData.items[i], i)

\* a second answer has replaced both the buffer and the table
C18_Witness ==
    /\ page = "batch"
    /\ resultShown
    /\ resultsData = Arr(<<PredOdd, PredHigh>>)
    /\ Len(resultsBody) = 2
    /\ resultsBody[2].riskTag = <<"High Risk">>
    /\ downloaded # <<>>
    /\ Len(Split(downloaded, NL)) = 5

(***************************************************************************)
(* C19                                                                     *)
(***************************************************************************)
\* no file, or a file with a name whose last part is .csv
AbsentOrCsv(file) ==
    \/ file = NoFile
    \/ /\ Len(file.name) > 0
       /\ file.name[Len(file.name)] = ".csv"

\* C19: the selected file is always absent or a file whose name ends in
\* '.csv'; handleFile on any other file shows an error and leaves the
\* selection as it was; a batch request is only ever built from a file
\* that passed the extension check.
C19_OnlyCsv ==
    /\ [](page = "batch" =>
            /\ AbsentOrCsv(selectedFile)
            /\ \A c \in Calls : AbsentOrCsv(calls[c].file))
    /\ [][\A file \in Files :
            (handleFile(file) /\ ~AbsentOrCsv(file)) =>
                /\ selectedFile' = selectedFile
                /\ errorShown'
                /\ errorText' = <<"Please upload a CSV file">>]_vars

\* a file of another kind was offered and turned down, and the request
\* in flight was built from the .csv file that is selected
C19_Witness ==
    /\ page = "batch"
    /\ selectedFile = [name |-> CsvName, doc |-> ShortRowDoc]
    /\ \E c \in Calls : /\ calls[c].pc = "fetching"
                        /\ calls[c].file = selectedFile
    /\ errorText = <<"Please upload a CSV file">>

(***************************************************************************)
(* C20                                                                     *)
(***************************************************************************)
\* some submission's own two seconds are not over yet
DelayRunning ==
    \E i \in 1..Len(timers) :
        timers[i].kind = "showResult" /\ timers[i].left > 0

\* C20: a submit of an invalid form opens neither the success modal nor
\* the result; a submit of a valid form hides any previous result at once,
\* and the result container stays hidden until that submission's own
\* 2-second delay has elapsed, for any interleaving of repeated submissions
\* and modal closes.
C20_Claim ==
    /\ [](page = "loan" => (DelayRunning => ~resultShown))
    /\ [][\A n \in RandomIds :
            submitLoan(n) =>
                /\ ~resultShown'
                /\ ~checkValidity(loanForm) => modalShown' = modalShown]_vars

====
